---- MODULE Spec2Model ----
(***************************************************************************)
(* Model of the sphinx-hoverxref extension (hoverxref/extension.py):       *)
(*   - HoverXRefStandardDomain: the reference-resolution interceptor,      *)
(*   - HoverXRefHTMLTranslator.starttag: the tag-emission interceptor,     *)
(*   - copy_asset_files: the build-finished hook,                          *)
(*   - setup: the declaration of the configuration options.                *)
(* The host (Sphinx / docutils) is modelled at the call sites only.        *)
(***************************************************************************)
EXTENDS Integers, Sequences, FiniteSets, TLC

\* ------------------------------------------------------------------ bounds
MaxCalls == 2        \* resolve_xref calls in one build
MaxIds == 2          \* length of an 'ids' list of a doctree node

\* ------------------------------------------------------------- basic values
\* Python's None where a string is expected (os.environ.get, config values)
None == "<None>"
\* "no node": what a resolver returns for an unresolved reference
NoneNode == [isnone |-> TRUE]
\* a node without the ``_hoverxref`` attribute
NoHover == <<>>

\* Python truthiness of a string-or-None value
Truthy(v) == v # None /\ v # ""

\* str.startswith on names kept as token sequences
StartsWith(s, p) == Len(s) >= Len(p) /\ SubSeq(s, 1, Len(p)) = p

\* configuration option names, as token sequences ("hoverxref", "_", rest)
Prefix == <<"hoverxref", "_">>
hoverxref_project == Prefix \o <<"project">>
hoverxref_version == Prefix \o <<"version">>
hoverxref_auto_ref == Prefix \o <<"auto_ref">>
hoverxref_tooltip_api_host == Prefix \o <<"tooltip_api_host">>
hoverxref_tooltip_theme == Prefix \o <<"tooltip_theme">>
hoverxref_tooltip_interactive == Prefix \o <<"tooltip_interactive">>
hoverxref_tooltip_maxwidth == Prefix \o <<"tooltip_maxwidth">>
hoverxref_tooltip_animation == Prefix \o <<"tooltip_animation">>
hoverxref_tooltip_animation_duration == Prefix \o <<"tooltip_animation_duration">>
hoverxref_tooltip_content == Prefix \o <<"tooltip_content">>
hoverxref_tooltip_class == Prefix \o <<"tooltip_class">>
\* options the host declares itself, outside the extension's namespace
html_theme == <<"html", "_", "theme">>
project == <<"project">>

READTHEDOCS_PROJECT == "READTHEDOCS_PROJECT"
READTHEDOCS_VERSION == "READTHEDOCS_VERSION"

\* os.environ.get(name): None when the variable is not set
EnvironGet(environ, name) == IF name \in DOMAIN environ THEN environ[name] ELSE None

\* the options the host has declared before the extension is set up
HostValues == (html_theme :> "alabaster") @@ (project :> "Python")

\* setup(app): app.config.values after the add_config_value calls
setup(environ) ==
    (hoverxref_project :> EnvironGet(environ, READTHEDOCS_PROJECT))
    @@ (hoverxref_version :> EnvironGet(environ, READTHEDOCS_VERSION))
    @@ (hoverxref_auto_ref :> FALSE)
    @@ (hoverxref_tooltip_api_host :> "https://readthedocs.org")
    @@ (hoverxref_tooltip_theme :> <<"tooltipster-shadow", "tooltipster-shadow-custom">>)
    @@ (hoverxref_tooltip_interactive :> TRUE)
    @@ (hoverxref_tooltip_maxwidth :> 450)
    @@ (hoverxref_tooltip_animation :> "fade")
    @@ (hoverxref_tooltip_animation_duration :> 0)
    @@ (hoverxref_tooltip_content :> "Loading...")
    @@ (hoverxref_tooltip_class :> "rst-content")
    @@ HostValues

\* ------------------------------------------------------------------ state
VARIABLES
    values,      \* app.config.values: option name -> declared default
    overrides,   \* app.config.__dict__: option name -> value set for this build
    calls,       \* trace of the resolve_xref calls of this build
    doctree,     \* the nodes of the document tree, in creation order
    log,         \* the records the extension's logger received
    lasttag,     \* the last starttag call: arguments, what reached the host, result
    outdir,      \* files below app.outdir/_static
    finished     \* the firings of the build-finished hook: its argument, outdir before it

vars == <<values, overrides, calls, doctree, log, lasttag, outdir, finished>>

\* getattr(app.config, attr): the value set for this build, else the default
ConfigGetattr(vals, ovr, attr) == IF attr \in DOMAIN ovr THEN ovr[attr] ELSE vals[attr]

\* ------------------------------------------------- the host's inventories
\* std-domain labels of the build: label name -> (document, anchor id)
Labels ==
    ("sec-label" :> [docname |-> "chapter-i", labelid |-> "section-i"])
    @@ ("conf-label" :> [docname |-> "configuration", labelid |-> "configuration"])

\* std-domain objects of the build: (object type, name) -> (document, anchor id)
Objects ==
    (<<"confval", "conf-title">> :> [docname |-> "configuration", labelid |-> "confval-conf-title"])
    @@ (<<"envvar", "conf-title">> :> [docname |-> "usage", labelid |-> "envvar-conf-title"])

\* the reference kinds and targets a document of the build may use
Types == {"hoverxref", "ref", "confval", "envvar"}
Targets == {"sec-label", "conf-label", "conf-title"}
FromDocs == {"index"}

\* registry.object_types: the object types registered for hover behaviour
object_types == {"confval"}

\* the reference node the host builds for a resolved target
HostRefNode(loc) ==
    [classes |-> <<>>, ids |-> <<>>, parent_ids |-> <<>>,
     refdoc |-> loc.docname, refid |-> loc.labelid, hoverxref |-> NoHover]

\* StandardDomain._resolve_ref_xref: None when the label is unknown
SuperResolveRefXref(target) ==
    IF target \in DOMAIN Labels THEN HostRefNode(Labels[target]) ELSE NoneNode

\* StandardDomain._resolve_obj_xref: None when the object is unknown
SuperResolveObjXref(typ, target) ==
    IF <<typ, target>> \in DOMAIN Objects THEN HostRefNode(Objects[<<typ, target>>]) ELSE NoneNode

\* utils.get_ref_xref_data: (document, anchor id) of the label the target names
get_ref_xref_data(target) ==
    IF target \in DOMAIN Labels THEN Labels[target] ELSE [docname |-> "", labelid |-> ""]

\* utils.get_ref_obj_data: (document, anchor id) of the object (typ, target)
get_ref_obj_data(typ, target) ==
    IF <<typ, target>> \in DOMAIN Objects THEN Objects[<<typ, target>>]
    ELSE [docname |-> "", labelid |-> ""]

\* ------------------------------------------------ HoverXRefStandardDomain
\* variant: only the project is looked at
_is_hoverxref_configured_project_only(vals, ovr) ==
    Truthy(ConfigGetattr(vals, ovr, hoverxref_project))

_is_hoverxref_configured(vals, ovr) ==
    /\ Truthy(ConfigGetattr(vals, ovr, hoverxref_project))
    /\ Truthy(ConfigGetattr(vals, ovr, hoverxref_version))

\* variant: document and anchor id change places
_inject_hoverxref_data_swapped(vals, ovr, refnode, docname, labelid) ==
    [refnode EXCEPT
        !.classes = <<"hoverxref">>,
        !.hoverxref =
            ("data-project" :> ConfigGetattr(vals, ovr, hoverxref_project))
            @@ ("data-version" :> ConfigGetattr(vals, ovr, hoverxref_version))
            @@ ("data-doc" :> labelid)
            @@ ("data-section" :> docname)]

_inject_hoverxref_data(vals, ovr, refnode, docname, labelid) ==
    [refnode EXCEPT
        !.classes = <<"hoverxref">>,
        !.hoverxref =
            ("data-project" :> ConfigGetattr(vals, ovr, hoverxref_project))
            @@ ("data-version" :> ConfigGetattr(vals, ovr, hoverxref_version))
            @@ ("data-doc" :> docname)
            @@ ("data-section" :> labelid)]

LogRecord(level, msg, fromdocname, data) ==
    [level |-> level, msg |-> msg, fromdocname |-> fromdocname, data |-> data]

NotConfiguredWarning ==
    LogRecord("warning", "hoverxref role is not fully configured.", "", NoHover)

\* variant: metadata goes on every resolved reference once project and version are set
_resolve_ref_xref_always(vals, ovr, fromdocname, typ, target) ==
    LET refnode == SuperResolveRefXref(target)
        configured == _is_hoverxref_configured(vals, ovr)
        warn == IF ~configured /\ typ = "hoverxref" THEN <<NotConfiguredWarning>> ELSE <<>>
        data == get_ref_xref_data(target)
        injected == _inject_hoverxref_data(vals, ovr, refnode, data.docname, data.labelid)
    IN  IF refnode = NoneNode THEN [ret |-> NoneNode, log |-> <<>>]
        ELSE IF configured
        THEN [ret |-> injected,
              log |-> warn \o <<LogRecord("info", ":ref: _hoverxref injected", fromdocname, injected.hoverxref)>>]
        ELSE [ret |-> refnode, log |-> warn]

\* variant: auto_ref is not read, only the hover role gets metadata
_resolve_ref_xref_role_only(vals, ovr, fromdocname, typ, target) ==
    LET refnode == SuperResolveRefXref(target)
        configured == _is_hoverxref_configured(vals, ovr)
        warn == IF ~configured /\ typ = "hoverxref" THEN <<NotConfiguredWarning>> ELSE <<>>
        data == get_ref_xref_data(target)
        injected == _inject_hoverxref_data(vals, ovr, refnode, data.docname, data.labelid)
    IN  IF refnode = NoneNode THEN [ret |-> NoneNode, log |-> <<>>]
        ELSE IF configured /\ typ = "hoverxref"
        THEN [ret |-> injected,
              log |-> warn \o <<LogRecord("info", ":ref: _hoverxref injected", fromdocname, injected.hoverxref)>>]
        ELSE [ret |-> refnode, log |-> warn]

\* variant: the configuration warning comes before the test for an unresolved reference
_resolve_ref_xref_warn_first(vals, ovr, fromdocname, typ, target) ==
    LET refnode == SuperResolveRefXref(target)
        configured == _is_hoverxref_configured(vals, ovr)
        warn == IF ~configured /\ typ = "hoverxref" THEN <<NotConfiguredWarning>> ELSE <<>>
        inject == configured /\ (ConfigGetattr(vals, ovr, hoverxref_auto_ref) \/ typ = "hoverxref")
        data == get_ref_xref_data(target)
        injected == _inject_hoverxref_data(vals, ovr, refnode, data.docname, data.labelid)
    IN  IF refnode = NoneNode THEN [ret |-> NoneNode, log |-> warn]
        ELSE IF inject
        THEN [ret |-> injected,
              log |-> warn \o <<LogRecord("info", ":ref: _hoverxref injected", fromdocname, injected.hoverxref)>>]
        ELSE [ret |-> refnode, log |-> warn]

\* the result of a resolver: the returned node and the records it logged
_resolve_ref_xref(vals, ovr, fromdocname, typ, target) ==
    LET refnode == SuperResolveRefXref(target)
        configured == _is_hoverxref_configured(vals, ovr)
        warn == IF ~configured /\ typ = "hoverxref" THEN <<NotConfiguredWarning>> ELSE <<>>
        inject == configured /\ (ConfigGetattr(vals, ovr, hoverxref_auto_ref) \/ typ = "hoverxref")
        data == get_ref_xref_data(target)
        injected == _inject_hoverxref_data(vals, ovr, refnode, data.docname, data.labelid)
    IN  IF refnode = NoneNode THEN [ret |-> NoneNode, log |-> <<>>]
        ELSE IF inject
        THEN [ret |-> injected,
              log |-> warn \o <<LogRecord("info", ":ref: _hoverxref injected", fromdocname, injected.hoverxref)>>]
        ELSE [ret |-> refnode, log |-> warn]

\* variant: the registry of object types is not consulted
_resolve_obj_xref_any_type(vals, ovr, fromdocname, typ, target) ==
    LET refnode == SuperResolveObjXref(typ, target)
        data == get_ref_obj_data(typ, target)
        injected == _inject_hoverxref_data(vals, ovr, refnode, data.docname, data.labelid)
    IN  IF refnode = NoneNode THEN [ret |-> NoneNode, log |-> <<>>]
        ELSE IF _is_hoverxref_configured(vals, ovr)
        THEN [ret |-> injected,
              log |-> <<LogRecord("info", ":" \o typ \o ": _hoverxref injected", fromdocname, injected.hoverxref)>>]
        ELSE [ret |-> refnode, log |-> <<>>]

_resolve_obj_xref(vals, ovr, fromdocname, typ, target) ==
    LET refnode == SuperResolveObjXref(typ, target)
        data == get_ref_obj_data(typ, target)
        injected == _inject_hoverxref_data(vals, ovr, refnode, data.docname, data.labelid)
    IN  IF refnode = NoneNode THEN [ret |-> NoneNode, log |-> <<>>]
        ELSE IF typ \in object_types /\ _is_hoverxref_configured(vals, ovr)
        THEN [ret |-> injected,
              log |-> <<LogRecord("info", ":" \o typ \o ": _hoverxref injected", fromdocname, injected.hoverxref)>>]
        ELSE [ret |-> refnode, log |-> <<>>]

\* StandardDomain.resolve_xref: dispatch on the role to the (overridden) resolvers
SuperResolveXref(vals, ovr, fromdocname, typ, target) ==
    IF typ = "ref" THEN _resolve_ref_xref(vals, ovr, fromdocname, typ, target)
    ELSE _resolve_obj_xref(vals, ovr, fromdocname, typ, target)

resolve_xref(vals, ovr, fromdocname, typ, target) ==
    IF typ = "hoverxref" THEN _resolve_ref_xref(vals, ovr, fromdocname, typ, target)
    ELSE SuperResolveXref(vals, ovr, fromdocname, typ, target)

\* what the host's default resolution alone would return for the reference
HostDefault(typ, target) ==
    IF typ \in {"hoverxref", "ref"} THEN SuperResolveRefXref(target)
    ELSE SuperResolveObjXref(typ, target)

\* the host resolves one reference of a document through the domain
ResolveXref ==
    /\ Len(calls) < MaxCalls
    /\ \E typ \in Types, target \in Targets, fromdocname \in FromDocs :
        LET r == resolve_xref(values, overrides, fromdocname, typ, target)
            d == IF r.ret = NoneNode THEN doctree ELSE Append(doctree, r.ret)
        IN  /\ doctree' = d
            /\ log' = log \o r.log
            /\ calls' = Append(calls,
                   [typ |-> typ, target |-> target, fromdocname |-> fromdocname,
                    host |-> HostDefault(typ, target), ret |-> r.ret,
                    node |-> IF r.ret = NoneNode THEN 0 ELSE Len(d),
                    logfrom |-> Len(log), logto |-> Len(log) + Len(r.log)])
    /\ UNCHANGED <<values, overrides, lasttag, outdir, finished>>

\* ------------------------------------------------ HoverXRefHTMLTranslator
\* dict.update: the keys of m are added to a, m's value winning on a collision
DictUpdate(a, m) ==
    [k \in (DOMAIN a) \cup (DOMAIN m) |-> IF k \in DOMAIN m THEN m[k] ELSE a[k]]

\* hasattr(node, '_hoverxref')
HasHoverxref(node) == node.hoverxref # NoHover

RECURSIVE Dedupe(_)
\* the class tokens in order, each one once
Dedupe(cs) ==
    IF cs = <<>> THEN <<>>
    ELSE LET front == Dedupe(SubSeq(cs, 1, Len(cs) - 1))
             last == cs[Len(cs)]
         IN  IF \E j \in 1..Len(front) : front[j] = last THEN front ELSE Append(front, last)

\* HTMLTranslator.starttag of the host: the tag it writes for (node, tagname, attributes):
\* the node's classes come before the 'class' argument, the first of the node's
\* ids becomes the id attribute, every other attribute is written as given
SuperStarttag(node, tagname, attributes) ==
    LET given == IF "class" \in DOMAIN attributes THEN attributes["class"] ELSE <<>>
        classes == Dedupe(node.classes \o given)
        keys == ((DOMAIN attributes) \ {"class"})
                \cup (IF classes # <<>> THEN {"class"} ELSE {})
                \cup (IF node.ids # <<>> THEN {"id"} ELSE {})
    IN  [tagname |-> tagname,
         atts |-> [k \in keys |->
                     IF k = "class" THEN classes
                     ELSE IF k = "id" THEN node.ids[1]
                     ELSE attributes[k]]]

\* variant: an attribute already present wins over the metadata
starttag_attrs_win(node, tagname, attributes) ==
    LET merged == IF tagname = "a" /\ HasHoverxref(node)
                  THEN DictUpdate(node.hoverxref, attributes)
                  ELSE attributes
        cleared == IF ~(tagname = "a" /\ HasHoverxref(node))
                      /\ tagname = "dt" /\ node.parent_ids = node.ids
                   THEN [node EXCEPT !.ids = <<>>]
                   ELSE node
    IN  [node |-> cleared,
         passed |-> [node |-> cleared, tagname |-> tagname, attributes |-> merged],
         out |-> SuperStarttag(cleared, tagname, merged)]

\* variant: the ids of every dt are cleared, whatever the parent's are
starttag_clear_any_dt(node, tagname, attributes) ==
    LET merged == IF tagname = "a" /\ HasHoverxref(node)
                  THEN DictUpdate(attributes, node.hoverxref)
                  ELSE attributes
        cleared == IF ~(tagname = "a" /\ HasHoverxref(node)) /\ tagname = "dt"
                   THEN [node EXCEPT !.ids = <<>>]
                   ELSE node
    IN  [node |-> cleared,
         passed |-> [node |-> cleared, tagname |-> tagname, attributes |-> merged],
         out |-> SuperStarttag(cleared, tagname, merged)]

\* starttag: the node after the call, what is passed to the host, and the tag
starttag(node, tagname, attributes) ==
    LET merged == IF tagname = "a" /\ HasHoverxref(node)
                  THEN DictUpdate(attributes, node.hoverxref)
                  ELSE attributes
        cleared == IF ~(tagname = "a" /\ HasHoverxref(node))
                      /\ tagname = "dt" /\ node.parent_ids = node.ids
                   THEN [node EXCEPT !.ids = <<>>]
                   ELSE node
    IN  [node |-> cleared,
         passed |-> [node |-> cleared, tagname |-> tagname, attributes |-> merged],
         out |-> SuperStarttag(cleared, tagname, merged)]

\* the tag names and keyword attributes the host's visitors call starttag with
TagNames == {"a", "dt", "dd"}
ReferenceAtts == ("class" :> <<"reference", "internal">>) @@ ("href" :> "target.html")
AttrInputs == {<<>>, ReferenceAtts, ReferenceAtts @@ ("data-doc" :> "stale")}

\* the host's writer emits the start tag of one node of the document tree
Starttag ==
    /\ \E i \in 1..Len(doctree), tagname \in TagNames, attributes \in AttrInputs :
        LET r == starttag(doctree[i], tagname, attributes)
        IN  /\ doctree' = [doctree EXCEPT ![i] = r.node]
            /\ lasttag' = <<[index |-> i, before |-> doctree[i], tagname |-> tagname,
                             attributes |-> attributes, passed |-> r.passed, out |-> r.out]>>
    /\ UNCHANGED <<values, overrides, calls, log, outdir, finished>>

\* ------------------------------------------------------ copy_asset_files
\* ASSETS_FILES: each file as its source directory and the parts of its name
\* between the dots
ASSETS_FILES == <<
    [dir |-> "js", parts |-> <<"hoverxref", "js_t">>],
    [dir |-> "js", parts |-> <<"tooltipster", "bundle", "min", "js">>],
    [dir |-> "css", parts |-> <<"tooltipster", "custom", "css">>],
    [dir |-> "css", parts |-> <<"tooltipster", "bundle", "min", "css">>],
    [dir |-> "css", parts |-> <<"tooltipster-sideTip-shadow", "min", "css">>] >>

\* f.split('.')[-1].replace('js_t', 'js')
DestSubdir(f) ==
    LET ext == f.parts[Len(f.parts)]
    IN  IF ext = "js_t" THEN "js" ELSE ext

\* a file name ends with the template marker
IsTemplate(f) == f.parts[Len(f.parts)] = "js_t"

\* copy_asset of the host: the file it writes below _static; a template is
\* rendered against the context and loses the marker, any other file is copied
CopyAsset(f, subdir, context) ==
    IF IsTemplate(f)
    THEN [path |-> <<"_static", subdir>> \o SubSeq(f.parts, 1, Len(f.parts) - 1) \o <<"js">>,
          content |-> [rendered |-> TRUE, context |-> context]]
    ELSE [path |-> <<"_static", subdir>> \o f.parts,
          content |-> [rendered |-> FALSE, context |-> <<>>]]

\* dir(app.config): the attributes set on the object and those of its class
ConfigDir(ovr) == (DOMAIN ovr) \cup {<<"values">>, <<"overrides">>, <<"init_values">>}

\* variant: the values of this build are not laid over the defaults
BuildContext_defaults_only(vals, ovr) ==
    [attr \in {a \in DOMAIN vals : StartsWith(a, Prefix)} |-> vals[attr]]

\* the template context: the declared defaults, then the values of this build
BuildContext(vals, ovr) ==
    LET defaults == [attr \in {a \in DOMAIN vals : StartsWith(a, Prefix)} |-> vals[attr]]
        active == [attr \in {a \in ConfigDir(ovr) : StartsWith(a, Prefix)} |->
                      ConfigGetattr(vals, ovr, attr)]
    IN  DictUpdate(defaults, active)

RECURSIVE CopyAll(_, _, _)
\* the loop over ASSETS_FILES: the output tree after the first n files are copied
CopyAll(n, tree, context) ==
    IF n = 0 THEN tree
    ELSE LET before == CopyAll(n - 1, tree, context)
             w == CopyAsset(ASSETS_FILES[n], DestSubdir(ASSETS_FILES[n]), context)
         IN  DictUpdate(before, w.path :> w.content)

\* variant: the exception is not looked at
copy_asset_files_always(vals, ovr, tree, exception) ==
    CopyAll(Len(ASSETS_FILES), tree, BuildContext(vals, ovr))

copy_asset_files(vals, ovr, tree, exception) ==
    IF exception = None
    THEN CopyAll(Len(ASSETS_FILES), tree, BuildContext(vals, ovr))
    ELSE tree

\* what the host hands to the build-finished hook
Exceptions == {None, "SphinxError"}

\* the build-finished event fires, once per build
CopyAssetFiles ==
    /\ finished = <<>>
    /\ \E exception \in Exceptions :
        /\ outdir' = copy_asset_files(values, overrides, outdir, exception)
        /\ finished' = <<[exception |-> exception, before |-> outdir]>>
    /\ UNCHANGED <<values, overrides, calls, doctree, log, lasttag>>

\* the values a build may give to project, version and auto_ref
ProjectOverrides == {None, "", "myproject"}
VersionOverrides == {None, "", "myversion"}

\* the overrides of one build: a value for each overridden option
OverridesOf(p, v, a) ==
    (IF p = None THEN <<>> ELSE (hoverxref_project :> p))
    @@ (IF v = None THEN <<>> ELSE (hoverxref_version :> v))
    @@ (IF a THEN (hoverxref_auto_ref :> TRUE) ELSE <<>>)

Init ==
    /\ values = setup(<<>>)
    /\ \E p \in ProjectOverrides, v \in VersionOverrides, a \in BOOLEAN :
           overrides = OverridesOf(p, v, a)
    /\ calls = <<>>
    /\ doctree = <<>>
    /\ log = <<>>
    /\ lasttag = <<>>
    /\ outdir = <<>>
    /\ finished = <<>>

Next == ResolveXref \/ Starttag

Spec == Init /\ [][Next]_vars

\* ---------------------------------------------- tag emission on any node
Ids == {"id1", "id2", "id3"}
\* the 'ids' lists of a node: no identifier twice
IdLists ==
    {l \in UNION {[1..n -> Ids] : n \in 0..MaxIds} :
        \A j, k \in 1..Len(l) : l[j] = l[k] => j = k}

\* a document tree of one node: any ids, any ids of the parent, with or
\* without the metadata a resolver injects
InitTags ==
    /\ values = setup(<<>>)
    /\ overrides = OverridesOf("myproject", "myversion", FALSE)
    /\ \E ids \in IdLists, parent_ids \in IdLists, hover \in BOOLEAN :
        LET plain == [HostRefNode(Labels["sec-label"]) EXCEPT !.ids = ids, !.parent_ids = parent_ids]
        IN  doctree = <<IF hover
                        THEN _inject_hoverxref_data(values, overrides, plain, plain.refdoc, plain.refid)
                        ELSE plain>>
    /\ calls = <<>>
    /\ log = <<>>
    /\ lasttag = <<>>
    /\ outdir = <<>>
    /\ finished = <<>>

NextTags == Starttag

SpecTags == InitTags /\ [][NextTags]_vars

\* ------------------------------------------------- the build-finished hook
\* the environment the extension is set up in
Environs ==
    {<<>>, (READTHEDOCS_PROJECT :> "rtd-project") @@ (READTHEDOCS_VERSION :> "latest")}

\* overrides of options other than project, version and auto_ref
ExtraOverrides ==
    {<<>>,
     (hoverxref_tooltip_maxwidth :> 300),
     (html_theme :> "sphinx_rtd_theme"),
     (hoverxref_tooltip_maxwidth :> 300) @@ (html_theme :> "sphinx_rtd_theme")}

\* the assets a previous build left in the output tree
StaleAssets ==
    (<<"_static", "js", "hoverxref", "js">> :>
        [rendered |-> TRUE, context |-> (hoverxref_project :> "previous")])

InitAssets ==
    /\ \E environ \in Environs : values = setup(environ)
    /\ \E p \in ProjectOverrides, v \in VersionOverrides, a \in BOOLEAN, x \in ExtraOverrides :
           overrides = OverridesOf(p, v, a) @@ x
    /\ calls = <<>>
    /\ doctree = <<>>
    /\ log = <<>>
    /\ lasttag = <<>>
    /\ outdir \in {<<>>, StaleAssets}
    /\ finished = <<>>

NextAssets == CopyAssetFiles

SpecAssets == InitAssets /\ [][NextAssets]_vars

\* ================================================================ properties
HoverKeys == {"data-project", "data-version", "data-doc", "data-section"}
HostKeys == {"class", "href", "id"}
Range(f) == {f[k] : k \in DOMAIN f}

CfgProject == ConfigGetattr(values, overrides, hoverxref_project)
CfgVersion == ConfigGetattr(values, overrides, hoverxref_version)
CfgAutoRef == ConfigGetattr(values, overrides, hoverxref_auto_ref)
BothSet == CfgProject \notin {None, ""} /\ CfgVersion \notin {None, ""}

\* the metadata expected for a target at location loc under this configuration
ExpectedMeta(loc) ==
    [k \in HoverKeys |->
        IF k = "data-project" THEN CfgProject
        ELSE IF k = "data-version" THEN CfgVersion
        ELSE IF k = "data-doc" THEN loc.docname
        ELSE loc.labelid]

CallIds == 1..Len(calls)
Resolved(c) == c.host # NoneNode
\* the warnings logged while call c ran
WarningsOf(c) == {j \in (c.logfrom + 1)..(c.logto) : log[j].level = "warning"}
LoggedOf(c) == (c.logfrom + 1)..(c.logto)
\* the last emission is an anchor written for the node call c returned
AnchorOf(c) ==
    /\ lasttag # <<>>
    /\ lasttag[1].tagname = "a"
    /\ c.node # 0
    /\ lasttag[1].index = c.node

\* C1: a resolved reference of the hover role, with project and version both
\* non-empty, carries the marker class and the four metadata values (project,
\* version, document of the label, anchor id of the label), and its emitted
\* anchor has exactly these four data attributes and the marker in its class,
\* whatever the auto-apply flag is.
C1_HoverRoleConfigured ==
    \A i \in CallIds :
        LET c == calls[i] IN
        (c.typ = "hoverxref" /\ Resolved(c) /\ BothSet) =>
            /\ c.ret.hoverxref = ExpectedMeta(Labels[c.target])
            /\ doctree[c.node].hoverxref = ExpectedMeta(Labels[c.target])
            /\ "hoverxref" \in Range(doctree[c.node].classes)
            /\ AnchorOf(c) =>
                LET atts == lasttag[1].out.atts IN
                /\ (DOMAIN atts) \ HostKeys = HoverKeys
                /\ \A k \in HoverKeys : atts[k] = ExpectedMeta(Labels[c.target])[k]
                /\ "hoverxref" \in Range(atts["class"])

C1_Witness ==
    \E i \in CallIds :
        /\ calls[i].typ = "hoverxref" /\ calls[i].target = "sec-label"
        /\ BothSet /\ ~CfgAutoRef
        /\ AnchorOf(calls[i])
        /\ lasttag[1].out.atts["data-section"] = "section-i"

\* C2: a resolved reference of the hover role while project or version is
\* unset is returned as the host resolved it (no metadata, no marker class),
\* its anchor is the one the host writes for the plain node, and exactly one
\* warning is logged for it.
C2_HoverRoleUnconfigured ==
    \A i \in CallIds :
        LET c == calls[i] IN
        (c.typ = "hoverxref" /\ Resolved(c) /\ ~BothSet) =>
            /\ c.ret = c.host
            /\ c.ret.hoverxref = NoHover
            /\ "hoverxref" \notin Range(c.ret.classes)
            /\ Cardinality(WarningsOf(c)) = 1
            /\ AnchorOf(c) =>
                /\ lasttag[1].out = SuperStarttag(c.host, "a", lasttag[1].attributes)
                /\ (DOMAIN lasttag[1].out.atts) \cap HoverKeys
                       = (DOMAIN lasttag[1].attributes) \cap HoverKeys

C2_Witness ==
    \E i \in CallIds :
        /\ calls[i].typ = "hoverxref" /\ Resolved(calls[i])
        /\ CfgProject = "myproject" /\ CfgVersion = ""
        /\ Cardinality(WarningsOf(calls[i])) = 1
        /\ AnchorOf(calls[i])

\* C3: with auto_ref disabled a generic reference never gets metadata and its
\* classes stay as the host set them, for every project and version.
C3_GenericNoAuto ==
    \A i \in CallIds :
        LET c == calls[i] IN
        (c.typ = "ref" /\ ~CfgAutoRef) =>
            /\ c.ret = c.host
            /\ Resolved(c) =>
                /\ c.ret.hoverxref = NoHover
                /\ c.ret.classes = c.host.classes
                /\ doctree[c.node].hoverxref = NoHover
                /\ doctree[c.node].classes = c.host.classes

C3_Witness ==
    \E i \in CallIds :
        /\ calls[i].typ = "ref" /\ Resolved(calls[i])
        /\ ~CfgAutoRef /\ BothSet
        /\ calls[i].ret.hoverxref = NoHover

\* C4: with auto_ref enabled a resolved generic reference gets, when project
\* and version are set, the marker class and the four-key metadata the hover
\* role gives for the same target; when one of them is unset it gets no
\* metadata and no warning is logged.
C4_GenericAuto ==
    \A i \in CallIds :
        LET c == calls[i]
            asrole == resolve_xref(values, overrides, c.fromdocname, "hoverxref", c.target)
        IN
        (c.typ = "ref" /\ Resolved(c) /\ CfgAutoRef) =>
            /\ BothSet =>
                /\ c.ret.classes = <<"hoverxref">>
                /\ DOMAIN c.ret.hoverxref = HoverKeys
                /\ c.ret.hoverxref = asrole.ret.hoverxref
                /\ c.ret.classes = asrole.ret.classes
                /\ c.ret = asrole.ret
            /\ ~BothSet =>
                /\ c.ret.hoverxref = NoHover
                /\ c.ret = c.host
                /\ WarningsOf(c) = {}

C4_Witness ==
    \E i, j \in CallIds :
        /\ calls[i].typ = "ref" /\ calls[j].typ = "hoverxref"
        /\ calls[i].target = calls[j].target
        /\ Resolved(calls[i]) /\ CfgAutoRef /\ BothSet
        /\ calls[i].ret.hoverxref = calls[j].ret.hoverxref
        /\ calls[i].ret.hoverxref # NoHover

\* C5: a resolved object reference gets metadata (project, version, document
\* and anchor of the object) exactly when its kind is a registered object type
\* and project and version are both set; a kind outside the registry is
\* returned as the host resolved it; no warning is logged; auto_ref plays no part.
C5_ObjectTypes ==
    \A i \in CallIds :
        LET c == calls[i] IN
        (c.typ \notin {"hoverxref", "ref"} /\ Resolved(c)) =>
            /\ (c.ret.hoverxref # NoHover) <=> (c.typ \in object_types /\ BothSet)
            /\ (c.ret.hoverxref # NoHover) =>
                /\ c.ret.hoverxref = ExpectedMeta(Objects[<<c.typ, c.target>>])
                /\ c.ret.classes = <<"hoverxref">>
            /\ (c.ret.hoverxref = NoHover) => c.ret = c.host
            /\ (c.typ \notin object_types) => c.ret = c.host
            /\ WarningsOf(c) = {}

C5_Witness ==
    \E i, j \in CallIds :
        /\ calls[i].typ = "confval" /\ calls[j].typ = "envvar"
        /\ Resolved(calls[i]) /\ Resolved(calls[j])
        /\ BothSet /\ ~CfgAutoRef
        /\ calls[i].ret.hoverxref["data-section"] = "confval-conf-title"
        /\ calls[j].ret.hoverxref = NoHover

\* the configuration asks for hover treatment of a reference of kind typ
SubjectToHover(typ) ==
    /\ BothSet
    /\ \/ typ = "hoverxref"
       \/ typ = "ref" /\ CfgAutoRef
       \/ typ \in object_types

\* C9: a node carries metadata only if its reference resolved and is subject
\* to hover treatment; when the host's resolution is unresolved the
\* interceptor returns unresolved, adds no node, and logs nothing.
C9_MetadataOnlyWhenResolved ==
    /\ \A i \in CallIds :
        LET c == calls[i] IN
        /\ ~Resolved(c) => (c.ret = NoneNode /\ c.node = 0 /\ LoggedOf(c) = {})
        /\ (c.ret # NoneNode /\ c.ret.hoverxref # NoHover) =>
               (Resolved(c) /\ SubjectToHover(c.typ))
    /\ \A n \in 1..Len(doctree) :
        doctree[n].hoverxref # NoHover =>
            \E i \in CallIds :
                /\ calls[i].node = n
                /\ Resolved(calls[i])
                /\ SubjectToHover(calls[i].typ)
    /\ Cardinality({i \in CallIds : calls[i].node # 0}) = Len(doctree)

C9_Witness ==
    /\ Len(calls) = 2
    /\ ~Resolved(calls[1]) /\ calls[1].typ = "hoverxref" /\ ~BothSet
    /\ Resolved(calls[2])
    /\ Len(doctree) = 1 /\ log # <<>>

\* the identifiers of an 'ids' list, as a set
IdSet(l) == {l[j] : j \in 1..Len(l)}

\* C6 as stated: a dt whose identifier SET equals its parent's is emitted
\* with its ids cleared and no id attribute, the parent's ids unchanged; a dt
\* whose identifier set differs keeps its ids.
C6_SetEquality ==
    (lasttag # <<>> /\ lasttag[1].tagname = "dt") =>
        LET t == lasttag[1]
            after == doctree[t.index]
        IN  /\ IdSet(t.before.ids) = IdSet(t.before.parent_ids) =>
                /\ after.ids = <<>>
                /\ "id" \notin DOMAIN t.out.atts
                /\ after.parent_ids = t.before.parent_ids
            /\ IdSet(t.before.ids) # IdSet(t.before.parent_ids) =>
                after.ids = t.before.ids

\* C6 (amended): a dt whose ids LIST equals its parent's (the same identifiers
\* in the same order) is emitted with its ids cleared and no id attribute, the
\* parent's ids unchanged; a dt whose ids list differs keeps its ids.
C6_ListEquality ==
    (lasttag # <<>> /\ lasttag[1].tagname = "dt") =>
        LET t == lasttag[1]
            after == doctree[t.index]
        IN  /\ t.before.ids = t.before.parent_ids =>
                /\ after.ids = <<>>
                /\ t.passed.node.ids = <<>>
                /\ "id" \notin DOMAIN t.out.atts
                /\ after.parent_ids = t.before.parent_ids
            /\ t.before.ids # t.before.parent_ids =>
                /\ after.ids = t.before.ids
                /\ after = t.before

C6_Witness ==
    /\ lasttag # <<>>
    /\ lasttag[1].tagname = "dt"
    /\ lasttag[1].before.ids = <<"id1", "id2">>
    /\ lasttag[1].before.parent_ids = <<"id1", "id2">>
    /\ doctree[lasttag[1].index].ids = <<>>
    /\ doctree[lasttag[1].index].parent_ids = <<"id1", "id2">>

\* C10: starttag changes an emission in two cases only. An anchor whose node
\* has metadata: the four pairs are merged into the attributes, the metadata
\* winning on a collision. A dt with ids equal to its parent's: the ids are
\* cleared. In every other case the tag name, the attributes and the node
\* reach the host's emission unchanged.
C10_RenderFrame ==
    lasttag # <<>> =>
        LET t == lasttag[1]
            anchor == t.tagname = "a" /\ t.before.hoverxref # NoHover
            dupdt == t.tagname = "dt" /\ t.before.ids = t.before.parent_ids
        IN  /\ t.passed.tagname = t.tagname
            /\ t.out = SuperStarttag(t.passed.node, t.passed.tagname, t.passed.attributes)
            /\ doctree[t.index] = t.passed.node
            /\ anchor =>
                /\ DOMAIN t.passed.attributes = (DOMAIN t.attributes) \cup HoverKeys
                /\ \A k \in HoverKeys : t.passed.attributes[k] = t.before.hoverxref[k]
                /\ \A k \in (DOMAIN t.attributes) \ HoverKeys :
                       t.passed.attributes[k] = t.attributes[k]
                /\ t.passed.node = t.before
            /\ dupdt =>
                /\ t.passed.node = [t.before EXCEPT !.ids = <<>>]
                /\ t.passed.attributes = t.attributes
            /\ (~anchor /\ ~dupdt) =>
                /\ t.passed.node = t.before
                /\ t.passed.attributes = t.attributes

C10_Witness ==
    /\ lasttag # <<>>
    /\ lasttag[1].tagname = "a"
    /\ lasttag[1].before.hoverxref # NoHover
    /\ lasttag[1].attributes = ReferenceAtts @@ ("data-doc" :> "stale")
    /\ lasttag[1].out.atts["data-doc"] = "chapter-i"

\* the files of the asset list, where they belong below the output tree
AssetPaths ==
    {<<"_static", "js", "hoverxref", "js">>,
     <<"_static", "js", "tooltipster", "bundle", "min", "js">>,
     <<"_static", "css", "tooltipster", "custom", "css">>,
     <<"_static", "css", "tooltipster", "bundle", "min", "css">>,
     <<"_static", "css", "tooltipster-sideTip-shadow", "min", "css">>}
ScriptPath == <<"_static", "js", "hoverxref", "js">>

\* C7: after a failed build the hook leaves the output tree as it was; after
\* a successful build every file of the asset list is in the output tree, the
\* template rendered and the others copied.
C7_AssetsOnlyOnSuccess ==
    finished # <<>> =>
        LET h == finished[1] IN
        /\ h.exception # None => outdir = h.before
        /\ h.exception = None =>
            /\ DOMAIN outdir = (DOMAIN h.before) \cup AssetPaths
            /\ \A q \in AssetPaths : outdir[q].rendered <=> q = ScriptPath

C7_Witness ==
    /\ finished # <<>>
    /\ finished[1].exception # None
    /\ finished[1].before = StaleAssets
    /\ outdir = StaleAssets

\* the options of the extension's namespace
NamespaceOptions ==
    {hoverxref_project, hoverxref_version, hoverxref_auto_ref,
     hoverxref_tooltip_api_host, hoverxref_tooltip_theme,
     hoverxref_tooltip_interactive, hoverxref_tooltip_maxwidth,
     hoverxref_tooltip_animation, hoverxref_tooltip_animation_duration,
     hoverxref_tooltip_content, hoverxref_tooltip_class}

\* C8: the context the script template is rendered with has an entry for each
\* option of the hoverxref_ namespace and for no other option; the entry is
\* the value set for this build when there is one, else the declared default.
C8_TemplateContext ==
    (finished # <<>> /\ finished[1].exception = None) =>
        LET ctx == outdir[ScriptPath].context IN
        /\ DOMAIN ctx = NamespaceOptions
        /\ \A a \in NamespaceOptions :
               ctx[a] = IF a \in DOMAIN overrides THEN overrides[a] ELSE values[a]
        /\ html_theme \notin DOMAIN ctx
        /\ project \notin DOMAIN ctx

C8_Witness ==
    /\ finished # <<>>
    /\ finished[1].exception = None
    /\ html_theme \in DOMAIN overrides
    /\ hoverxref_tooltip_maxwidth \in DOMAIN overrides
    /\ hoverxref_project \notin DOMAIN overrides
    /\ outdir[ScriptPath].context[hoverxref_tooltip_maxwidth] = 300
    /\ outdir[ScriptPath].context[hoverxref_project] = "rtd-project"
    /\ outdir[ScriptPath].context[hoverxref_tooltip_animation] = "fade"

====
